---- MODULE Spec2Model ----
(***************************************************************************)
(* A model of savon's WSDL inspection (src/src/wsdl.rs): the function      *)
(* parse, which walks an xmltree element tree and builds the Wsdl value    *)
(* (types, messages, operations) or fails.                                 *)
(*                                                                         *)
(* Strings that the code inspects character by character (attribute        *)
(* values) are sequences of one-character strings, so that prefix          *)
(* stripping and number parsing are computed as the code computes them.    *)
(* Tag names and attribute keys are only ever compared with literals and   *)
(* are TLA+ strings.  Option<T> is a sequence of length 0 (None) or 1      *)
(* (Some).  A HashMap is a function from its key set.                      *)
(***************************************************************************)
EXTENDS Integers, Sequences, FiniteSets, TLC

VARIABLES input, doc, pc, target_namespace, types, messages, operations, result

vars == <<input, doc, pc, target_namespace, types, messages, operations, result>>

(***************************************************************************)
(* Option, Result and HashMap                                              *)
(***************************************************************************)
None == <<>>
Some(v) == <<v>>

Ok(v) == [kind |-> "Ok", val |-> v]
Err(variant, arg) == [kind |-> "Err", val |-> <<variant, arg>>]
Panic(msg) == [kind |-> "Panic", val |-> msg]
NoResult == [kind |-> "Running", val |-> <<>>]

EmptyMap == [k \in {} |-> <<>>]
\* Variant: an existing key keeps its entry.
Insert_keep_existing(m, k, v) ==
  IF k \in DOMAIN m THEN m
  ELSE [j \in (DOMAIN m) \cup {k} |-> IF j = k THEN v ELSE m[j]]

Insert(m, k, v) == [j \in (DOMAIN m) \cup {k} |-> IF j = k THEN v ELSE m[j]]

(***************************************************************************)
(* The xmltree collaborator: an element has a tag name, attributes (get    *)
(* returns an Option) and child nodes; a node is an element or not (text,  *)
(* comment, ...).                                                          *)
(***************************************************************************)
AttrKeys == {"targetNamespace", "name", "type", "nillable", "minOccurs",
             "maxOccurs", "element", "message"}

NoAttrs == [k \in AttrKeys |-> None]
Attr(k, v) == [j \in AttrKeys |-> IF j = k THEN Some(v) ELSE None]
WithOpt(a, k, o) == [a EXCEPT ![k] = o]

Elem(tag, a, ch) == [kind |-> "element", name |-> tag, attrs |-> a, children |-> ch]
TextNode == [kind |-> "text", name |-> "", attrs |-> NoAttrs, children |-> <<>>]

IsElement(c) == c.kind = "element"
ChildElements(e) == SelectSeq(e.children, IsElement)
First(s) == IF s = <<>> THEN None ELSE Some(s[1])
NamedChildren(e, tag) == SelectSeq(ChildElements(e), LAMBDA c : c.name = tag)
get_child(e, tag) == First(NamedChildren(e, tag))

(***************************************************************************)
(* split_namespace: everything after the first colon, or the whole string. *)
(***************************************************************************)
RECURSIVE FindColon(_, _)
FindColon(s, i) ==
  IF i > Len(s) THEN 0
  ELSE IF s[i] = ":" THEN i
  ELSE FindColon(s, i + 1)

\* Variant: the slice starts at the colon instead of after it.
split_namespace_keep_colon(s) ==
  LET index == FindColon(s, 1)
  IN  IF index = 0 THEN s ELSE SubSeq(s, index, Len(s))

split_namespace(s) ==
  LET index == FindColon(s, 1)
  IN  IF index = 0 THEN s ELSE SubSeq(s, index + 1, Len(s))

(***************************************************************************)
(* str::parse::<u32>: an optional leading "+", then one or more decimal    *)
(* digits, accumulated with checked multiplication and addition.  A u32 is *)
(* kept as two 16-bit halves <<hi, lo>> (value hi * 65536 + lo).           *)
(***************************************************************************)
Half == 65536
Digits == <<"0", "1", "2", "3", "4", "5", "6", "7", "8", "9">>
IsDigit(c) == \E d \in 1..10 : Digits[d] = c
DigitVal(c) == (CHOOSE d \in 1..10 : Digits[d] = c) - 1

RECURSIVE ParseDigits(_, _, _)
ParseDigits(s, i, acc) ==
  IF i > Len(s) THEN Some(acc)
  ELSE IF ~IsDigit(s[i]) THEN None
  ELSE LET lo10 == acc[2] * 10 + DigitVal(s[i])
           hi10 == acc[1] * 10 + (lo10 \div Half)
       IN  IF hi10 >= Half THEN None
           ELSE ParseDigits(s, i + 1, <<hi10, lo10 % Half>>)

ParseU32(s) ==
  IF s = <<>> THEN None
  ELSE IF s[1] \in {"+", "-"} /\ Len(s) = 1 THEN None
  ELSE IF s[1] = "+" THEN ParseDigits(s, 2, <<0, 0>>)
  ELSE ParseDigits(s, 1, <<0, 0>>)

Unbounded == <<"Unbounded">>
Num(u) == <<"Num", u[1], u[2]>>
U32(n) == <<n \div Half, n % Half>>

S_unbounded == <<"u", "n", "b", "o", "u", "n", "d", "e", "d">>
S_true == <<"t", "r", "u", "e">>
S_false == <<"f", "a", "l", "s", "e">>
S_boolean == <<"b", "o", "o", "l", "e", "a", "n">>
S_string == <<"s", "t", "r", "i", "n", "g">>
S_int == <<"i", "n", "t">>
S_float == <<"f", "l", "o", "a", "t">>
S_dateTime == <<"d", "a", "t", "e", "T", "i", "m", "e">>

\* One occurrence attribute: Ok(Option<Occurence>) or the expect() panic.
ParseOccurs(a) ==
  IF a = None THEN Ok(None)
  ELSE IF a[1] = S_unbounded THEN Ok(Some(Unbounded))
  ELSE LET n == ParseU32(a[1])
       IN  IF n = None THEN Panic("occurence should be a number")
           ELSE Ok(Some(Num(n[1])))

ParseNillable(a) ==
  IF a = Some(S_true) THEN TRUE
  ELSE IF a = Some(S_false) THEN FALSE
  ELSE FALSE

\* Variant: every minOccurs of 0 collapses, whatever maxOccurs is.
Normalize_any_max(nillable, min_occurs, max_occurs) ==
  IF min_occurs = Some(Num(U32(0)))
  THEN [nillable |-> TRUE, min_occurs |-> None, max_occurs |-> None]
  ELSE IF min_occurs = Some(Num(U32(1))) /\ max_occurs = Some(Num(U32(1)))
  THEN [nillable |-> FALSE, min_occurs |-> None, max_occurs |-> None]
  ELSE [nillable |-> nillable, min_occurs |-> min_occurs, max_occurs |-> max_occurs]

\* The match on (min_occurs, max_occurs) that collapses (0,1) and (1,1).
Normalize(nillable, min_occurs, max_occurs) ==
  IF min_occurs = Some(Num(U32(0))) /\ max_occurs = Some(Num(U32(1)))
  THEN [nillable |-> TRUE, min_occurs |-> None, max_occurs |-> None]
  ELSE IF min_occurs = Some(Num(U32(1))) /\ max_occurs = Some(Num(U32(1)))
  THEN [nillable |-> FALSE, min_occurs |-> None, max_occurs |-> None]
  ELSE [nillable |-> nillable, min_occurs |-> min_occurs, max_occurs |-> max_occurs]

\* Variant: the primitive names are matched whatever their case.
Classify_ignoring_case(field_type) ==
  LET s == split_namespace(field_type)
  IN  IF s = S_boolean THEN <<"Boolean">>
      ELSE IF s \in {S_string, <<"S", "t", "r", "i", "n", "g">>} THEN <<"String">>
      ELSE IF s \in {S_int, <<"I", "n", "t">>} THEN <<"Int">>
      ELSE IF s = S_float THEN <<"Float">>
      ELSE IF s \in {S_dateTime, <<"d", "a", "t", "e", "t", "i", "m", "e">>} THEN <<"DateTime">>
      ELSE <<"Complex", s>>

Classify(field_type) ==
  LET s == split_namespace(field_type)
  IN  IF s = S_boolean THEN <<"Boolean">>
      ELSE IF s = S_string THEN <<"String">>
      ELSE IF s = S_int THEN <<"Int">>
      ELSE IF s = S_float THEN <<"Float">>
      ELSE IF s = S_dateTime THEN <<"DateTime">>
      ELSE <<"Complex", s>>

\* One field element: Ok([name, attr, simple]) or the first failure.
ParseField(field) ==
  LET a == field.attrs
      mn == ParseOccurs(a["minOccurs"])
      mx == ParseOccurs(a["maxOccurs"])
  IN  IF a["name"] = None THEN Err("AttributeNotFound", "name")
      ELSE IF a["type"] = None THEN Err("AttributeNotFound", "type")
      ELSE IF mn.kind = "Panic" THEN mn
      ELSE IF mx.kind = "Panic" THEN mx
      ELSE Ok([name |-> a["name"][1],
               attr |-> Normalize(ParseNillable(a["nillable"]), mn.val, mx.val),
               simple |-> Classify(a["type"][1])])

(***************************************************************************)
(* Type-table extraction                                                   *)
(***************************************************************************)
\* children.get(0).ok_or(Empty)?.as_element().ok_or(NotAnElement)?
FirstNodeAsElement(e) ==
  IF e.children = <<>> THEN Err("Empty", "")
  ELSE IF ~IsElement(e.children[1]) THEN Err("NotAnElement", "")
  ELSE Ok(e.children[1])

\* Variant: the wrapper is taken for the body.
TypeBody_without_descent(elem) == Ok(elem)

\* Shape normalisation: a complexType is its own body, anything else is a
\* wrapper around its first child node.
TypeBody(elem) ==
  IF elem.name = "complexType" THEN Ok(elem) ELSE FirstNodeAsElement(elem)

RECURSIVE FieldsLoop(_, _, _)
FieldsLoop(fs, i, fields) ==
  IF i > Len(fs) THEN Ok(fields)
  ELSE LET f == ParseField(fs[i])
       IN  IF f.kind # "Ok" THEN f
           ELSE FieldsLoop(fs, i + 1,
                           Insert(fields, f.val.name,
                                  [attr |-> f.val.attr, simple |-> f.val.simple]))

\* The body of a type declaration: Ok(field table) or the first failure.
ParseComplexBody(child) ==
  IF child.name = "complexType"
  THEN LET container == FirstNodeAsElement(child)
       IN  IF container.kind # "Ok" THEN container
           ELSE FieldsLoop(ChildElements(container.val), 1, EmptyMap)
  ELSE Panic("not implemented: not a complex type")

\* One child element of the schema root: Ok([name, type]) or the first failure.
ParseTypeDecl(elem) ==
  LET name == elem.attrs["name"]
      child == TypeBody(elem)
  IN  IF name = None THEN Err("AttributeNotFound", "name")
      ELSE IF child.kind # "Ok" THEN child
      ELSE LET fields == ParseComplexBody(child.val)
           IN  IF fields.kind # "Ok" THEN fields
               ELSE Ok([name |-> name[1],
                        type |-> [tag |-> "Complex", fields |-> fields.val]])

RECURSIVE TypesLoop(_, _, _)
TypesLoop(es, i, tys) ==
  IF i > Len(es) THEN Ok(tys)
  ELSE LET t == ParseTypeDecl(es[i])
       IN  IF t.kind # "Ok" THEN t
           ELSE TypesLoop(es, i + 1, Insert(tys, t.val.name, t.val.type))

\* Variant: a missing types child is reported like a types child without children.
SchemaRoot_missing_as_empty(root) ==
  LET types_child == get_child(root, "types")
  IN  IF types_child = None THEN Err("Empty", "")
      ELSE LET first == First(ChildElements(types_child[1]))
           IN  IF first = None THEN Err("Empty", "") ELSE Ok(first[1])

\* The schema root: the first child element of the root's first types child.
SchemaRoot(root) ==
  LET types_child == get_child(root, "types")
  IN  IF types_child = None THEN Err("ElementNotFound", "types")
      ELSE LET first == First(ChildElements(types_child[1]))
           IN  IF first = None THEN Err("Empty", "") ELSE Ok(first[1])

ExtractTypesFrom(root, tys) ==
  LET types_el == SchemaRoot(root)
  IN  IF types_el.kind # "Ok" THEN types_el
      ELSE TypesLoop(ChildElements(types_el.val), 1, tys)

(***************************************************************************)
(* Message-table extraction                                                *)
(***************************************************************************)
ParseMessage(message) ==
  LET name == message.attrs["name"]
      c == First(ChildElements(message))
  IN  IF name = None THEN Err("AttributeNotFound", "name")
      ELSE IF c = None THEN Panic("called Option::unwrap() on a None value")
      ELSE IF c[1].attrs["name"] = None THEN Err("AttributeNotFound", "name")
      ELSE IF c[1].attrs["element"] = None THEN Err("AttributeNotFound", "element")
      ELSE Ok([name |-> name[1],
               message |-> [part_name |-> c[1].attrs["name"][1],
                            part_element |-> split_namespace(c[1].attrs["element"][1])]])

\* Variant: a message that fails with an error is left out and the loop goes on.
RECURSIVE MessagesLoop_skipping_failures(_, _, _)
MessagesLoop_skipping_failures(ms, i, msgs) ==
  IF i > Len(ms) THEN Ok(msgs)
  ELSE LET m == ParseMessage(ms[i])
       IN  IF m.kind = "Panic" THEN m
           ELSE IF m.kind = "Err" THEN MessagesLoop_skipping_failures(ms, i + 1, msgs)
           ELSE MessagesLoop_skipping_failures(ms, i + 1, Insert(msgs, m.val.name, m.val.message))

RECURSIVE MessagesLoop(_, _, _)
MessagesLoop(ms, i, msgs) ==
  IF i > Len(ms) THEN Ok(msgs)
  ELSE LET m == ParseMessage(ms[i])
       IN  IF m.kind # "Ok" THEN m
           ELSE MessagesLoop(ms, i + 1, Insert(msgs, m.val.name, m.val.message))

ExtractMessagesFrom(root, msgs) ==
  MessagesLoop(NamedChildren(root, "message"), 1, msgs)

(***************************************************************************)
(* Operation-table extraction                                              *)
(***************************************************************************)
HasMessage(c) == c.attrs["message"] # None

\* Variant: a child under an unknown tag is skipped.
Member_skipping_unknown(child, acc) ==
  LET m == child.attrs["message"]
  IN  IF m = None THEN Err("AttributeNotFound", "message")
      ELSE LET message == split_namespace(m[1])
           IN  IF child.name = "input" THEN Ok([acc EXCEPT !.input = Some(message)])
               ELSE IF child.name = "output" THEN Ok([acc EXCEPT !.output = Some(message)])
               ELSE IF child.name = "fault"
               THEN Ok([acc EXCEPT !.faults =
                          Some(Append(IF acc.faults = None THEN <<>> ELSE acc.faults[1],
                                      message))])
               ELSE Ok(acc)

\* Variant: an input or output already set is kept.
Member_first_kept(child, acc) ==
  LET m == child.attrs["message"]
  IN  IF m = None THEN Err("AttributeNotFound", "message")
      ELSE LET message == split_namespace(m[1])
           IN  IF child.name = "input"
               THEN Ok(IF acc.input = None THEN [acc EXCEPT !.input = Some(message)] ELSE acc)
               ELSE IF child.name = "output"
               THEN Ok(IF acc.output = None THEN [acc EXCEPT !.output = Some(message)] ELSE acc)
               ELSE IF child.name = "fault"
               THEN Ok([acc EXCEPT !.faults =
                          Some(Append(IF acc.faults = None THEN <<>> ELSE acc.faults[1],
                                      message))])
               ELSE Err("ElementNotFound", "operation member")

\* One filtered child of an operation, applied to (input, output, faults).
Member(child, acc) ==
  LET m == child.attrs["message"]
  IN  IF m = None THEN Err("AttributeNotFound", "message")
      ELSE LET message == split_namespace(m[1])
           IN  IF child.name = "input" THEN Ok([acc EXCEPT !.input = Some(message)])
               ELSE IF child.name = "output" THEN Ok([acc EXCEPT !.output = Some(message)])
               ELSE IF child.name = "fault"
               THEN Ok([acc EXCEPT !.faults =
                          Some(Append(IF acc.faults = None THEN <<>> ELSE acc.faults[1],
                                      message))])
               ELSE Err("ElementNotFound", "operation member")

RECURSIVE MembersLoop(_, _, _)
MembersLoop(cs, i, acc) ==
  IF i > Len(cs) THEN Ok(acc)
  ELSE LET r == Member(cs[i], acc)
       IN  IF r.kind # "Ok" THEN r ELSE MembersLoop(cs, i + 1, r.val)

OperationMembers(operation) == SelectSeq(ChildElements(operation), HasMessage)

ParseOperation(operation) ==
  LET operation_name == operation.attrs["name"]
  IN  IF operation_name = None THEN Err("AttributeNotFound", "name")
      ELSE LET r == MembersLoop(OperationMembers(operation), 1,
                                [input |-> None, output |-> None, faults |-> None])
           IN  IF r.kind # "Ok" THEN r
               ELSE Ok([name |-> operation_name[1],
                        input |-> r.val.input,
                        output |-> r.val.output,
                        faults |-> r.val.faults])

RECURSIVE OperationsLoop(_, _, _)
OperationsLoop(os, i, ops) ==
  IF i > Len(os) THEN Ok(ops)
  ELSE LET o == ParseOperation(os[i])
       IN  IF o.kind # "Ok" THEN o
           ELSE OperationsLoop(os, i + 1, Insert(ops, o.val.name, o.val))

ExtractOperationsFrom(root, ops) ==
  LET port_type_el == get_child(root, "portType")
  IN  IF port_type_el = None THEN Err("ElementNotFound", "portType")
      ELSE OperationsLoop(ChildElements(port_type_el[1]), 1, ops)

(***************************************************************************)
(* The root attribute and the service name                                 *)
(***************************************************************************)
TargetNamespaceOf(root) ==
  IF root.attrs["targetNamespace"] = None
  THEN Err("AttributeNotFound", "targetNamespace")
  ELSE Ok(root.attrs["targetNamespace"][1])

ServiceNameOf(root) ==
  LET service == get_child(root, "service")
  IN  IF service = None THEN Err("ElementNotFound", "service")
      ELSE IF service[1].attrs["name"] = None THEN Err("AttributeNotFound", "name")
      ELSE Ok(service[1].attrs["name"][1])

Wsdl(name, tns, tys, msgs, ops) ==
  [name |-> name, target_namespace |-> tns, types |-> tys,
   messages |-> msgs, operations |-> ops]

\* parse as one function: the stages in the order the code runs them.
parse(root) ==
  LET tns == TargetNamespaceOf(root)
      tys == ExtractTypesFrom(root, EmptyMap)
      msgs == ExtractMessagesFrom(root, EmptyMap)
      ops == ExtractOperationsFrom(root, EmptyMap)
      svc == ServiceNameOf(root)
  IN  IF tns.kind # "Ok" THEN tns
      ELSE IF tys.kind # "Ok" THEN tys
      ELSE IF msgs.kind # "Ok" THEN msgs
      ELSE IF ops.kind # "Ok" THEN ops
      ELSE IF svc.kind # "Ok" THEN svc
      ELSE Ok(Wsdl(svc.val, tns.val, tys.val, msgs.val, ops.val))


(***************************************************************************)
(* The documents parse is run on.  Each input names a family and the part  *)
(* of the document that varies; DocOf builds the element tree around it.   *)
(***************************************************************************)
MaxFields == 2
MaxMembers == 3
MaxDecls == 2
MaxNamelessMembers == 1

SeqsUpTo(S, n) == UNION {[1..k -> S] : k \in 0..n}
Perms(S) == {p \in [1..Cardinality(S) -> S] : \A i, j \in DOMAIN p : p[i] = p[j] => i = j}

S_0 == <<"0">>
S_1 == <<"1">>
S_2 == <<"2">>
S_01 == <<"0", "1">>
S_plus1 == <<"+", "1">>
S_max == <<"4", "2", "9", "4", "9", "6", "7", "2", "9", "5">>
S_over == <<"4", "2", "9", "4", "9", "6", "7", "2", "9", "6">>
S_x == <<"x">>
S_minus1 == <<"-", "1">>
S_xs_string == <<"x", "s", ":">> \o S_string

\* Values of minOccurs / maxOccurs, and of nillable.
FittingNumerals == {S_0, S_1, S_2, S_01, S_plus1, S_max}
OccStrings == FittingNumerals \cup {S_unbounded, S_over, S_x, S_minus1, <<>>}
OccAttrs == {None} \cup {Some(v) : v \in OccStrings}
NillableAttrs == {None, Some(S_true), Some(S_false), Some(S_1)}

\* Qualified names: local names, bare or behind a prefix.
ColonFree == {<<>>, <<"t">>, <<"x", "s">>, <<"P">>, <<"I", "n", "t">>,
              <<"S", "t", "r", "i", "n", "g">>,
              <<"d", "a", "t", "e", "t", "i", "m", "e">>,
              S_boolean, S_string, S_int, S_float, S_dateTime}
Prefixes == {<<>>, <<"t">>, <<"x", "s">>}
Qualify(ns, local) == ns \o <<":">> \o local
OneColon == {Qualify(ns, l) : ns \in Prefixes, l \in ColonFree}
TwoColons == {Qualify(<<"t">>, q) : q \in {Qualify(<<"x", "s">>, S_int), Qualify(<<"t">>, <<"P">>)}}
QNames == ColonFree \cup OneColon \cup TwoColons
ShortQNames == {<<"P">>, <<"t", ":", "P">>, <<":", "P">>, <<"t", ":">>, <<"t", ":", "t", ":", "P">>}

FieldOf(name, type, nillable, mn, mx) ==
  Elem("element",
       [NoAttrs EXCEPT !["name"] = name, !["type"] = type, !["nillable"] = nillable,
                       !["minOccurs"] = mn, !["maxOccurs"] = mx],
       <<>>)
SequenceOf(fields) == Elem("sequence", NoAttrs, fields)
BareType(name, body) == Elem("complexType", WithOpt(NoAttrs, "name", name), body)
WrappedType(name, body) ==
  Elem("element", WithOpt(NoAttrs, "name", name), <<Elem("complexType", NoAttrs, body)>>)
TypesOf(decls) == Elem("types", NoAttrs, <<Elem("schema", NoAttrs, decls)>>)
PartOf(name, element) ==
  Elem("part", [NoAttrs EXCEPT !["name"] = name, !["element"] = element], <<>>)
MessageOf(name, parts) == Elem("message", WithOpt(NoAttrs, "name", name), parts)
MemberOf(tag, message) == Elem(tag, WithOpt(NoAttrs, "message", message), <<>>)
OperationOf(name, members) == Elem("operation", WithOpt(NoAttrs, "name", name), members)
PortTypeOf(ops) == Elem("portType", NoAttrs, ops)
ServiceOf(name) == Elem("service", WithOpt(NoAttrs, "name", name), <<>>)
RootOf(tns, children) == Elem("definitions", WithOpt(NoAttrs, "targetNamespace", tns), children)

N_A == <<"A">>
N_B == <<"B">>
N_M == <<"M">>
N_N == <<"N">>
N_O == <<"O">>
N_Q == <<"Q">>
N_f == <<"f">>
N_g == <<"g">>
TNS == <<"u", "r", "n">>

GoodField == FieldOf(Some(N_f), Some(S_xs_string), None, None, None)
GoodTypes == TypesOf(<<BareType(Some(N_A), <<SequenceOf(<<GoodField>>)>>)>>)
GoodMessage == MessageOf(Some(N_M), <<PartOf(Some(<<"p">>), Some(<<"t", ":", "A">>))>>)
GoodOperation == OperationOf(Some(N_O), <<MemberOf("input", Some(<<"t", ":", "M">>))>>)
GoodPortType == PortTypeOf(<<GoodOperation>>)
GoodService == ServiceOf(Some(<<"S">>))

\* family "field": one field element of the only type.
FieldInputs ==
  {FieldOf(Some(N_f), Some(S_xs_string), nl, mn, mx) :
     nl \in NillableAttrs, mn \in OccAttrs, mx \in OccAttrs}
  \cup {FieldOf(Some(N_f), Some(t), None, None, None) : t \in QNames}
  \cup {FieldOf(None, Some(S_int), None, None, None),
        FieldOf(Some(N_f), None, None, None, None),
        FieldOf(None, None, None, Some(S_x), None)}

\* family "decl": one child element of the schema root.
FieldVariants ==
  {GoodField,
   FieldOf(Some(N_f), Some(S_int), Some(S_false), Some(S_0), Some(S_1)),
   FieldOf(Some(N_g), Some(<<"t", ":", "P">>), None, None, Some(S_unbounded)),
   FieldOf(None, Some(S_int), None, None, None),
   FieldOf(Some(N_g), None, None, None, None),
   FieldOf(Some(N_g), Some(S_int), None, Some(S_x), None),
   TextNode}
Bodies ==
  {<<>>, <<TextNode>>, <<TextNode, SequenceOf(<<GoodField>>)>>,
   <<SequenceOf(<<GoodField>>), TextNode>>}
  \cup {<<SequenceOf(fs)>> : fs \in SeqsUpTo(FieldVariants, MaxFields)}
OddDecls ==
  {Elem("element", Attr("name", N_A), <<>>),
   Elem("element", Attr("name", N_A), <<TextNode, Elem("complexType", NoAttrs, <<SequenceOf(<<GoodField>>)>>)>>),
   Elem("element", Attr("name", N_A), <<Elem("simpleType", NoAttrs, <<>>)>>),
   Elem("simpleType", Attr("name", N_A), <<Elem("restriction", NoAttrs, <<>>)>>),
   Elem("simpleType", Attr("name", N_A), <<>>)}
DeclInputs ==
  {BareType(n, b) : n \in {None, Some(N_A)}, b \in Bodies}
  \cup {WrappedType(n, b) : n \in {None, Some(N_A)}, b \in Bodies}
  \cup OddDecls

\* family "operation": the only operation of the port type.
MemberKinds ==
  {MemberOf("input", Some(<<"M">>)), MemberOf("input", Some(<<"t", ":", "N">>)),
   MemberOf("output", Some(<<"M">>)), MemberOf("output", Some(<<"t", ":", "N">>)),
   MemberOf("fault", Some(<<"M">>)), MemberOf("fault", Some(<<"t", ":", "N">>)),
   MemberOf("documentation", Some(<<"M">>)), MemberOf("documentation", None),
   MemberOf("input", None), TextNode}
OperationInputs ==
  {OperationOf(Some(N_O), ms) : ms \in SeqsUpTo(MemberKinds, MaxMembers)}
  \cup {OperationOf(None, ms) : ms \in SeqsUpTo(MemberKinds, MaxNamelessMembers)}

\* families "types", "messages", "operations": a sequence of declarations.
DeclVariants ==
  {BareType(Some(N_A), <<SequenceOf(<<GoodField>>)>>),
   BareType(Some(N_A), <<SequenceOf(<<FieldOf(Some(N_g), Some(S_int), None, None, None)>>)>>),
   BareType(Some(N_A), <<SequenceOf(<<FieldOf(Some(N_f), Some(S_int), None, None, None),
                                      GoodField>>)>>),
   BareType(Some(N_B), <<SequenceOf(<<GoodField>>)>>),
   WrappedType(Some(N_A), <<SequenceOf(<<FieldOf(Some(N_g), Some(<<"t", ":", "P">>), None, None, None)>>)>>),
   BareType(None, <<SequenceOf(<<GoodField>>)>>),
   Elem("element", Attr("name", N_B), <<Elem("simpleType", NoAttrs, <<>>)>>)}
MessageVariants ==
  {GoodMessage,
   MessageOf(Some(N_M), <<PartOf(Some(<<"q">>), Some(<<"B">>)), PartOf(Some(<<"p">>), Some(<<"A">>))>>),
   MessageOf(Some(N_N), <<TextNode, PartOf(Some(<<"p">>), Some(<<"A">>))>>),
   MessageOf(None, <<PartOf(Some(<<"p">>), Some(<<"A">>))>>),
   MessageOf(Some(N_N), <<TextNode>>),
   MessageOf(Some(N_N), <<PartOf(Some(<<"p">>), None)>>),
   MessageOf(Some(N_N), <<PartOf(None, Some(<<"A">>))>>)}
OpVariants ==
  {GoodOperation,
   OperationOf(Some(N_O), <<MemberOf("output", Some(<<"N">>))>>),
   OperationOf(Some(N_Q), <<MemberOf("input", Some(<<"M">>)), MemberOf("fault", Some(<<"F">>))>>),
   OperationOf(Some(N_Q), <<MemberOf("documentation", Some(<<"M">>))>>),
   OperationOf(None, <<MemberOf("input", Some(<<"M">>))>>),
   OperationOf(None, <<MemberOf("documentation", Some(<<"M">>))>>)}

\* family "layout": the root's attribute and the arrangement of its children.
TypesItems == {"T_ok", "T_declNoName", "T_fieldNoName", "T_fieldNoType", "T_badOcc", "T_notComplex"}
MessageItems == {"M_ok", "M_noName", "M_noPart", "M_partNoName", "M_partNoElement"}
PortTypeItems == {"P_ok", "P_opNoName", "P_badMember"}
ServiceItems == {"S_ok", "S_noName"}

ItemElem(item) ==
  CASE item = "T_ok" -> GoodTypes
    [] item = "T_declNoName" -> TypesOf(<<BareType(None, <<SequenceOf(<<GoodField>>)>>)>>)
    [] item = "T_fieldNoName" ->
         TypesOf(<<BareType(Some(N_A), <<SequenceOf(<<FieldOf(None, Some(S_int), None, None, None)>>)>>)>>)
    [] item = "T_fieldNoType" ->
         TypesOf(<<BareType(Some(N_A), <<SequenceOf(<<FieldOf(Some(N_f), None, None, None, None)>>)>>)>>)
    [] item = "T_badOcc" ->
         TypesOf(<<BareType(Some(N_A), <<SequenceOf(<<FieldOf(Some(N_f), Some(S_int), None, Some(S_x), None)>>)>>)>>)
    [] item = "T_notComplex" ->
         TypesOf(<<Elem("element", Attr("name", N_A), <<Elem("simpleType", NoAttrs, <<>>)>>)>>)
    [] item = "M_ok" -> GoodMessage
    [] item = "M_noName" -> MessageOf(None, <<PartOf(Some(<<"p">>), Some(<<"A">>))>>)
    [] item = "M_noPart" -> MessageOf(Some(N_M), <<>>)
    [] item = "M_partNoName" -> MessageOf(Some(N_M), <<PartOf(None, Some(<<"A">>))>>)
    [] item = "M_partNoElement" -> MessageOf(Some(N_M), <<PartOf(Some(<<"p">>), None)>>)
    [] item = "P_ok" -> GoodPortType
    [] item = "P_opNoName" -> PortTypeOf(<<OperationOf(None, <<MemberOf("input", Some(<<"M">>))>>)>>)
    [] item = "P_badMember" -> PortTypeOf(<<OperationOf(Some(N_O), <<MemberOf("documentation", Some(<<"M">>))>>)>>)
    [] item = "S_ok" -> GoodService
    [] item = "S_noName" -> ServiceOf(None)

ItemChoices ==
  {t \cup m \cup p \cup s :
     t \in {{}} \cup {{x} : x \in TypesItems},
     m \in {{}} \cup {{x} : x \in MessageItems},
     p \in {{}} \cup {{x} : x \in PortTypeItems},
     s \in {{}} \cup {{x} : x \in ServiceItems}}
Arrangements == UNION {Perms(c) : c \in ItemChoices}
InOrder == {<<t, m, p, s>> : t \in TypesItems, m \in MessageItems,
                              p \in PortTypeItems, s \in ServiceItems}
LayoutInputs ==
  {[tns |-> Some(TNS), items |-> a] : a \in Arrangements}
  \cup {[tns |-> None, items |-> a] : a \in InOrder}

Malformed == [kind |-> "malformed", name |-> "", attrs |-> NoAttrs, children |-> <<>>]

DocOf(i) ==
  CASE i.fam = "field" ->
         RootOf(Some(TNS), <<TypesOf(<<BareType(Some(N_A), <<SequenceOf(<<i.val>>)>>)>>),
                             GoodMessage, GoodPortType, GoodService>>)
    [] i.fam = "decl" ->
         RootOf(Some(TNS), <<TypesOf(<<i.val>>), GoodMessage, GoodPortType, GoodService>>)
    [] i.fam = "types" ->
         RootOf(Some(TNS), <<TypesOf(i.val), GoodMessage, GoodPortType, GoodService>>)
    [] i.fam = "part" ->
         RootOf(Some(TNS), <<GoodTypes, MessageOf(Some(N_M), <<PartOf(Some(<<"p">>), Some(i.val))>>),
                             GoodPortType, GoodService>>)
    [] i.fam = "messages" ->
         RootOf(Some(TNS), <<GoodTypes>> \o i.val \o <<GoodPortType, GoodService>>)
    [] i.fam = "member" ->
         RootOf(Some(TNS), <<GoodTypes, GoodMessage,
                             PortTypeOf(<<OperationOf(Some(N_O), <<MemberOf("input", Some(i.val))>>)>>),
                             GoodService>>)
    [] i.fam = "operation" ->
         RootOf(Some(TNS), <<GoodTypes, GoodMessage, PortTypeOf(<<i.val>>), GoodService>>)
    [] i.fam = "operations" ->
         RootOf(Some(TNS), <<GoodTypes, GoodMessage, PortTypeOf(i.val), GoodService>>)
    [] i.fam = "layout" ->
         RootOf(i.val.tns, [k \in DOMAIN i.val.items |-> ItemElem(i.val.items[k])])
    [] i.fam = "malformed" -> Malformed

In(f, v) == [fam |-> f, val |-> v]

InitInput ==
  \/ \E v \in FieldInputs : input = In("field", v)
  \/ \E v \in DeclInputs : input = In("decl", v)
  \/ \E v \in SeqsUpTo(DeclVariants, MaxDecls) : input = In("types", v)
  \/ \E v \in ShortQNames : input = In("part", v)
  \/ \E v \in SeqsUpTo(MessageVariants, MaxDecls) : input = In("messages", v)
  \/ \E v \in ShortQNames : input = In("member", v)
  \/ \E v \in OperationInputs : input = In("operation", v)
  \/ \E v \in SeqsUpTo(OpVariants, MaxDecls) : input = In("operations", v)
  \/ \E v \in LayoutInputs : input = In("layout", v)
  \/ input = In("malformed", <<>>)

Init ==
  /\ InitInput
  /\ doc = DocOf(input)
  /\ pc = "xml"
  /\ target_namespace = None
  /\ types = EmptyMap
  /\ messages = EmptyMap
  /\ operations = EmptyMap
  /\ result = NoResult


(***************************************************************************)
(* The state machine: parse, one action per stage.  pc is the stage about  *)
(* to run; types, messages and operations are the tables under             *)
(* construction; result is what parse returned (or the abort).             *)
(***************************************************************************)
Finish(r) ==
  /\ pc' = "done"
  /\ result' = r

\* let elements = Element::parse(bytes)?
ElementParse ==
  /\ pc = "xml"
  /\ IF doc.kind = "malformed"
     THEN Finish(Err("Parse", ""))
     ELSE pc' = "target_namespace" /\ UNCHANGED result
  /\ UNCHANGED <<input, doc, target_namespace, types, messages, operations>>

ReadTargetNamespace ==
  /\ pc = "target_namespace"
  /\ LET r == TargetNamespaceOf(doc)
     IN  IF r.kind = "Ok"
         THEN /\ target_namespace' = Some(r.val)
              /\ pc' = "types"
              /\ UNCHANGED result
         ELSE Finish(r) /\ UNCHANGED target_namespace
  /\ UNCHANGED <<input, doc, types, messages, operations>>

ExtractTypes ==
  /\ pc = "types"
  /\ LET r == ExtractTypesFrom(doc, types)
     IN  IF r.kind = "Ok"
         THEN /\ types' = r.val
              /\ pc' = "messages"
              /\ UNCHANGED result
         ELSE Finish(r) /\ UNCHANGED types
  /\ UNCHANGED <<input, doc, target_namespace, messages, operations>>

ExtractMessages ==
  /\ pc = "messages"
  /\ LET r == ExtractMessagesFrom(doc, messages)
     IN  IF r.kind = "Ok"
         THEN /\ messages' = r.val
              /\ pc' = "operations"
              /\ UNCHANGED result
         ELSE Finish(r) /\ UNCHANGED messages
  /\ UNCHANGED <<input, doc, target_namespace, types, operations>>

ExtractOperations ==
  /\ pc = "operations"
  /\ LET r == ExtractOperationsFrom(doc, operations)
     IN  IF r.kind = "Ok"
         THEN /\ operations' = r.val
              /\ pc' = "service"
              /\ UNCHANGED result
         ELSE Finish(r) /\ UNCHANGED operations
  /\ UNCHANGED <<input, doc, target_namespace, types, messages>>

ReadService ==
  /\ pc = "service"
  /\ LET r == ServiceNameOf(doc)
     IN  IF r.kind = "Ok"
         THEN Finish(Ok(Wsdl(r.val, target_namespace[1], types, messages, operations)))
         ELSE Finish(r)
  /\ UNCHANGED <<input, doc, target_namespace, types, messages, operations>>

Next ==
  \/ ElementParse
  \/ ReadTargetNamespace
  \/ ExtractTypes
  \/ ExtractMessages
  \/ ExtractOperations
  \/ ReadService


Spec == Init /\ [][Next]_vars

(***************************************************************************)
(* Properties.  Expected values are written out independently of the       *)
(* operators above: numerals by table, the stripped name by the position   *)
(* of the least colon.                                                     *)
(***************************************************************************)
Done == pc = "done"
SameOutcome(r1, r2) == r1.kind = r2.kind /\ r1.val = r2.val

Colons(v) == {k \in 1..Len(v) : v[k] = ":"}
StrippedName(v) ==
  IF Colons(v) = {} THEN v
  ELSE LET k == CHOOSE c \in Colons(v) : \A j \in Colons(v) : c <= j
       IN  [i \in 1..(Len(v) - k) |-> v[k + i]]

ExpectedOcc(a) ==
  CASE a = None -> None
    [] a = Some(S_unbounded) -> Some(<<"Unbounded">>)
    [] a = Some(S_0) -> Some(<<"Num", 0, 0>>)
    [] a \in {Some(S_1), Some(S_01), Some(S_plus1)} -> Some(<<"Num", 0, 1>>)
    [] a = Some(S_2) -> Some(<<"Num", 0, 2>>)
    [] a = Some(S_max) -> Some(<<"Num", 65535, 65535>>)

ExpectedAttr(f) ==
  LET mn == ExpectedOcc(f.attrs["minOccurs"])
      mx == ExpectedOcc(f.attrs["maxOccurs"])
  IN  CASE mn = Some(<<"Num", 0, 0>>) /\ mx = Some(<<"Num", 0, 1>>) ->
             [nillable |-> TRUE, min_occurs |-> None, max_occurs |-> None]
        [] mn = Some(<<"Num", 0, 1>>) /\ mx = Some(<<"Num", 0, 1>>) ->
             [nillable |-> FALSE, min_occurs |-> None, max_occurs |-> None]
        [] OTHER ->
             [nillable |-> (f.attrs["nillable"] = Some(S_true)),
              min_occurs |-> mn, max_occurs |-> mx]

FittingOccAttrs == {None, Some(S_unbounded)} \cup {Some(v) : v \in FittingNumerals}
DecimalOccAttrs == FittingOccAttrs \cup {Some(S_over)}

NamedTypedField ==
  /\ input.fam = "field"
  /\ input.val.attrs["name"] = Some(N_f)
  /\ input.val.attrs["type"] # None

TheFieldEntry == result.val.types[N_A].fields[N_f]

Primitives == {S_boolean, S_string, S_int, S_float, S_dateTime}

\* C7: the stripped local name of a field's type is classified Boolean iff it
\* is "boolean", String iff "string", Int iff "int", Float iff "float",
\* DateTime iff "dateTime" (case-sensitively), and any other name n is
\* Complex(n) carrying exactly the stripped name.
C7_TypeClassification ==
  (Done /\ NamedTypedField /\ result.kind = "Ok")
  => LET local == StrippedName(input.val.attrs["type"][1])
         simple == TheFieldEntry.simple
     IN  /\ (simple = <<"Boolean">>) <=> (local = S_boolean)
         /\ (simple = <<"String">>) <=> (local = S_string)
         /\ (simple = <<"Int">>) <=> (local = S_int)
         /\ (simple = <<"Float">>) <=> (local = S_float)
         /\ (simple = <<"DateTime">>) <=> (local = S_dateTime)
         /\ local \notin Primitives => simple = <<"Complex", local>>

\* A field typed "xs:Int" has been parsed to Complex("Int").
C7_Witness ==
  /\ Done
  /\ NamedTypedField
  /\ input.val.attrs["type"] = Some(<<"x", "s", ":", "I", "n", "t">>)
  /\ result.kind = "Ok"
  /\ TheFieldEntry.simple = <<"Complex", <<"I", "n", "t">>>>

\* The attribute that goes through split_namespace, and the input with it rewritten.
QualifiedFamily == input.fam \in {"field", "part", "member"} /\ (input.fam = "field" => NamedTypedField)
QualifiedValue == IF input.fam = "field" THEN input.val.attrs["type"][1] ELSE input.val
Rewritten(v) ==
  IF input.fam = "field"
  THEN In("field", [input.val EXCEPT !.attrs["type"] = Some(v)])
  ELSE In(input.fam, v)

StrippingLaw(names) ==
  (Done /\ QualifiedFamily)
  => /\ \A ns \in names, local \in names :
          QualifiedValue = Qualify(ns, local)
          => SameOutcome(result, parse(DocOf(Rewritten(local))))
     /\ (QualifiedValue \in names \/ \E ns \in names, local \in names :
                                        QualifiedValue = Qualify(ns, local))
        => split_namespace(split_namespace(QualifiedValue)) = split_namespace(QualifiedValue)

\* C3 (as amended): for every prefix ns and name Local that contain no colon,
\* a document whose field type, part element or member message is written
\* "ns:Local" parses to the same outcome as the document with it written
\* "Local"; and split_namespace is idempotent on strings with at most one colon.
C3_NamespaceStripping == StrippingLaw(ColonFree)

\* C3 as stated: the same for every ns and Local, and idempotence on every string.
C3_AnyString == StrippingLaw(ColonFree \cup OneColon)

\* A part whose element is "t:P" has been parsed to part_element "P".
C3_Witness ==
  /\ Done
  /\ input.fam = "part"
  /\ input.val = <<"t", ":", "P">>
  /\ result.kind = "Ok"
  /\ result.val.messages[N_M].part_element = <<"P">>

\* C2: a type declared as a bare complexType and the same type declared as an
\* element whose first child is a complexType with the same body give the
\* same outcome of parse: the same tables, or the same failure.
C2_DualShape ==
  (/\ Done
   /\ input.fam = "decl"
   /\ input.val.name = "complexType"
   /\ input.val.attrs["name"] # None)
  => SameOutcome(result,
                 parse(DocOf(In("decl", WrappedType(input.val.attrs["name"],
                                                    input.val.children)))))

\* A bare complexType with two distinct fields has been parsed to a two-field table.
C2_Witness ==
  /\ Done
  /\ input.fam = "decl"
  /\ input.val.name = "complexType"
  /\ input.val.attrs["name"] = Some(N_A)
  /\ result.kind = "Ok"
  /\ DOMAIN result.val.types[N_A].fields = {N_f, N_g}


(***************************************************************************)
(* Failure sites of the "layout" family, by item.                          *)
(***************************************************************************)
NoFailure == Ok(<<>>)
ItemOutcome(item) ==
  CASE item \in {"T_declNoName", "T_fieldNoName", "M_noName", "M_partNoName",
                 "P_opNoName", "S_noName"} -> Err("AttributeNotFound", "name")
    [] item = "T_fieldNoType" -> Err("AttributeNotFound", "type")
    [] item = "M_partNoElement" -> Err("AttributeNotFound", "element")
    [] item = "P_badMember" -> Err("ElementNotFound", "operation member")
    [] item = "T_badOcc" -> Panic("occurence should be a number")
    [] item = "T_notComplex" -> Panic("not implemented: not a complex type")
    [] item = "M_noPart" -> Panic("called Option::unwrap() on a None value")
    [] OTHER -> NoFailure

OkItems == {"T_ok", "M_ok", "P_ok", "S_ok"}
AbortItems == {"T_badOcc", "T_notComplex", "M_noPart"}
ItemSet(l) == {l.items[k] : k \in DOMAIN l.items}

FirstFailure(outcomes) ==
  LET failed == {k \in DOMAIN outcomes : outcomes[k].kind # "Ok"}
  IN  IF failed = {} THEN NoFailure
      ELSE outcomes[CHOOSE k \in failed : \A j \in failed : k <= j]

\* The outcome of the one item of a kind, or what its absence yields.
KindOutcome(l, kind, absent) ==
  LET here == ItemSet(l) \cap kind
  IN  IF here = {} THEN absent ELSE ItemOutcome(CHOOSE i \in here : TRUE)

StageOrderFailure(l) ==
  FirstFailure(<<IF l.tns = None THEN Err("AttributeNotFound", "targetNamespace") ELSE NoFailure,
                 KindOutcome(l, TypesItems, Err("ElementNotFound", "types")),
                 KindOutcome(l, MessageItems, NoFailure),
                 KindOutcome(l, PortTypeItems, Err("ElementNotFound", "portType")),
                 KindOutcome(l, ServiceItems, Err("ElementNotFound", "service"))>>)

DocumentOrderFailure(l) ==
  FirstFailure([k \in DOMAIN l.items |-> ItemOutcome(l.items[k])])

Agrees(r, expected) ==
  IF expected.kind = "Ok" THEN r.kind = "Ok" ELSE SameOutcome(r, expected)

\* C4: a document that is valid except for exactly one missing required item
\* yields that site's error: targetNamespace, types, portType, service, the
\* name of a type declaration, the name or type of a field, the name of a
\* message, the element of a message part.
C4Cases ==
  {[tns |-> FALSE, items |-> OkItems, err |-> <<"AttributeNotFound", "targetNamespace">>],
   [tns |-> TRUE, items |-> OkItems \ {"T_ok"}, err |-> <<"ElementNotFound", "types">>],
   [tns |-> TRUE, items |-> OkItems \ {"P_ok"}, err |-> <<"ElementNotFound", "portType">>],
   [tns |-> TRUE, items |-> OkItems \ {"S_ok"}, err |-> <<"ElementNotFound", "service">>],
   [tns |-> TRUE, items |-> (OkItems \ {"T_ok"}) \cup {"T_declNoName"},
    err |-> <<"AttributeNotFound", "name">>],
   [tns |-> TRUE, items |-> (OkItems \ {"T_ok"}) \cup {"T_fieldNoName"},
    err |-> <<"AttributeNotFound", "name">>],
   [tns |-> TRUE, items |-> (OkItems \ {"T_ok"}) \cup {"T_fieldNoType"},
    err |-> <<"AttributeNotFound", "type">>],
   [tns |-> TRUE, items |-> (OkItems \ {"M_ok"}) \cup {"M_noName"},
    err |-> <<"AttributeNotFound", "name">>],
   [tns |-> TRUE, items |-> (OkItems \ {"M_ok"}) \cup {"M_partNoElement"},
    err |-> <<"AttributeNotFound", "element">>]}

C4_MissingItemErrors ==
  (Done /\ input.fam = "layout")
  => \A c \in C4Cases :
       ((input.val.tns # None) = c.tns /\ ItemSet(input.val) = c.items)
       => (result.kind = "Err" /\ result.val = c.err)

\* A document whose only defect is a field without type has failed with
\* AttributeNotFound("type").
C4_Witness ==
  /\ Done
  /\ input.fam = "layout"
  /\ input.val.tns # None
  /\ ItemSet(input.val) = {"T_fieldNoType", "M_ok", "P_ok", "S_ok"}
  /\ SameOutcome(result, Err("AttributeNotFound", "type"))

\* C5 (as amended): with more than one failure site, the outcome of parse is
\* that of the first failure in stage order (targetNamespace, then the type
\* declarations, then the messages, then the port type's operations, then
\* the service), and within a stage in document order, wherever the root's
\* children stand; no later failure is reported in place of an earlier one.
C5_StageOrder ==
  Done =>
    CASE input.fam = "layout" -> Agrees(result, StageOrderFailure(input.val))
      [] input.fam = "types" ->
           Agrees(result, FirstFailure([k \in DOMAIN input.val |-> ParseTypeDecl(input.val[k])]))
      [] input.fam = "messages" ->
           Agrees(result, FirstFailure([k \in DOMAIN input.val |-> ParseMessage(input.val[k])]))
      [] input.fam = "operations" ->
           Agrees(result, FirstFailure([k \in DOMAIN input.val |-> ParseOperation(input.val[k])]))
      [] OTHER -> TRUE

\* C5 as stated: the error is that of the first failure in document order,
\* for every arrangement of the root's children.
C5_DocumentOrder ==
  (/\ Done
   /\ input.fam = "layout"
   /\ input.val.tns # None
   /\ Len(input.val.items) = 4
   /\ ItemSet(input.val) \cap AbortItems = {})
  => Agrees(result, DocumentOrderFailure(input.val))

\* A message without name stands before a field without type, and parse has
\* reported the field.
C5_Witness ==
  /\ Done
  /\ input.fam = "layout"
  /\ Len(input.val.items) = 4
  /\ input.val.items[1] = "M_noName"
  /\ input.val.items[2] = "T_fieldNoType"
  /\ SameOutcome(result, Err("AttributeNotFound", "type"))

\* C10 as stated: parse aborts only for a type declaration whose body is not a
\* complexType or for an occurrence value that is not a number; a message
\* without part does not abort it.
C10_OnlyTwoAbortSites ==
  (Done /\ input.fam = "layout" /\ result.kind = "Panic")
  => ItemSet(input.val) \cap {"T_badOcc", "T_notComplex"} # {}

(***************************************************************************)
(* Operations                                                              *)
(***************************************************************************)
CarriesMessage(c) == IsElement(c) /\ c.attrs["message"] # None
Misuse(op) ==
  \E k \in DOMAIN op.children :
    CarriesMessage(op.children[k]) /\ op.children[k].name \notin {"input", "output", "fault"}
InputOperations ==
  IF input.fam = "operation" THEN <<input.val>> ELSE input.val
NoMessageError == ~(result.kind = "Err" /\ result.val = <<"AttributeNotFound", "message">>)

\* C6 (as amended): if an operation has a child that carries a message
\* attribute under a tag other than input, output or fault, and the earlier
\* stages and the name reads of that operation and of the operations before
\* it succeeded, parse returns ElementNotFound("operation member"); children
\* without a message attribute are skipped without error whatever their tag,
\* and AttributeNotFound("message") is never returned.
C6_OperationMemberMisuse ==
  Done =>
    /\ NoMessageError
    /\ input.fam \in {"operation", "operations"} =>
         LET ops == InputOperations
         IN  /\ (\E k \in DOMAIN ops :
                   /\ Misuse(ops[k])
                   /\ \A j \in 1..k : ops[j].attrs["name"] # None)
                => SameOutcome(result, Err("ElementNotFound", "operation member"))
             /\ (\A k \in DOMAIN ops : ~Misuse(ops[k]) /\ ops[k].attrs["name"] # None)
                => result.kind = "Ok"

\* C6 as stated: the error follows whenever the earlier stages succeeded.
C6_GivenEarlierStages ==
  (Done /\ input.fam \in {"operation", "operations"})
  => ((\E k \in DOMAIN InputOperations : Misuse(InputOperations[k]))
      => SameOutcome(result, Err("ElementNotFound", "operation member")))

\* An operation with a valid input and then a documentation child carrying a
\* message has failed with ElementNotFound("operation member").
C6_Witness ==
  /\ Done
  /\ input.fam = "operation"
  /\ input.val.attrs["name"] # None
  /\ Len(input.val.children) = 2
  /\ input.val.children[1].name = "input"
  /\ CarriesMessage(input.val.children[1])
  /\ input.val.children[2].name = "documentation"
  /\ CarriesMessage(input.val.children[2])
  /\ SameOutcome(result, Err("ElementNotFound", "operation member"))

Carrying(op, tag) ==
  SelectSeq(op.children, LAMBDA c : CarriesMessage(c) /\ c.name = tag)
MessageName(c) == StrippedName(c.attrs["message"][1])
LastOf(cs) == IF cs = <<>> THEN None ELSE Some(MessageName(cs[Len(cs)]))

\* C8: the Operation built from an operation element has input = the stripped
\* message of its last input child (None without one), output likewise, and
\* faults = None without a fault child, otherwise the stripped messages of
\* all fault children in document order.
C8_OperationFields ==
  (Done /\ input.fam = "operation" /\ result.kind = "Ok")
  => LET op == input.val
         o == result.val.operations[op.attrs["name"][1]]
         fs == Carrying(op, "fault")
     IN  /\ o.name = op.attrs["name"][1]
         /\ o.input = LastOf(Carrying(op, "input"))
         /\ o.output = LastOf(Carrying(op, "output"))
         /\ o.faults = IF fs = <<>> THEN None
                       ELSE Some([k \in 1..Len(fs) |-> MessageName(fs[k])])

\* An operation with children input M, fault t:N, input t:N has input N and
\* faults [N].
C8_Witness ==
  /\ Done
  /\ input.fam = "operation"
  /\ input.val.attrs["name"] = Some(N_O)
  /\ Len(input.val.children) = 3
  /\ input.val.children[1] = MemberOf("input", Some(<<"M">>))
  /\ input.val.children[2] = MemberOf("fault", Some(<<"t", ":", "N">>))
  /\ input.val.children[3] = MemberOf("input", Some(<<"t", ":", "N">>))
  /\ result.kind = "Ok"
  /\ result.val.operations[N_O].input = Some(<<"N">>)
  /\ result.val.operations[N_O].faults = Some(<< <<"N">> >>)

(***************************************************************************)
(* Tables                                                                  *)
(***************************************************************************)
NameOf(e) == e.attrs["name"][1]
Names(es) == {NameOf(es[k]) : k \in DOMAIN es}
LastNamed(es, k) == \A j \in DOMAIN es : j > k => NameOf(es[j]) # NameOf(es[k])
SchemaDecls == ChildElements(SchemaRoot(doc).val)
DeclBody(d) == IF d.name = "complexType" THEN d ELSE d.children[1]
FieldElems(d) == ChildElements(DeclBody(d).children[1])
MessageElems == NamedChildren(doc, "message")
OperationElems == ChildElements(get_child(doc, "portType")[1])

\* C9: when parse returns Ok, the keys of types are the names of all child
\* elements of the schema root, the keys of messages the names of all message
\* children of the root, the keys of operations the names of all child
\* elements of portType, and the field keys of a type the names of its field
\* elements; an entry declared more than once is the one built from the last
\* declaration of that name.
C9_LastWriteWins ==
  (Done /\ result.kind = "Ok")
  => LET w == result.val
     IN  /\ DOMAIN w.types = Names(SchemaDecls)
         /\ DOMAIN w.messages = Names(MessageElems)
         /\ DOMAIN w.operations = Names(OperationElems)
         /\ \A k \in DOMAIN SchemaDecls :
              LastNamed(SchemaDecls, k) =>
                LET t == w.types[NameOf(SchemaDecls[k])]
                    fs == FieldElems(SchemaDecls[k])
                IN  /\ t.tag = "Complex"
                    /\ DOMAIN t.fields = Names(fs)
                    /\ \A j \in DOMAIN fs :
                         LastNamed(fs, j) =>
                           LET f == ParseField(fs[j]).val
                           IN  t.fields[NameOf(fs[j])] = [attr |-> f.attr, simple |-> f.simple]
         /\ \A k \in DOMAIN MessageElems :
              LastNamed(MessageElems, k) =>
                w.messages[NameOf(MessageElems[k])] = ParseMessage(MessageElems[k]).val.message
         /\ \A k \in DOMAIN OperationElems :
              LastNamed(OperationElems, k) =>
                w.operations[NameOf(OperationElems[k])] = ParseOperation(OperationElems[k]).val

\* Type A has been declared twice, first with field f and then with field g,
\* and the table holds the second declaration only.
C9_Witness ==
  /\ Done
  /\ input.fam = "types"
  /\ Len(input.val) = 2
  /\ input.val[1] = BareType(Some(N_A), <<SequenceOf(<<GoodField>>)>>)
  /\ input.val[2].attrs["name"] = Some(N_A)
  /\ result.kind = "Ok"
  /\ DOMAIN result.val.types = {N_A}
  /\ DOMAIN result.val.types[N_A].fields = {N_g}


====
